---------------------------- MODULE Spec2Model ----------------------------
(***************************************************************************)
(* A model of the workspace-manager daemon: the registry (server.rs), the  *)
(* text command parser (server/signature.rs), the per-connection handler   *)
(* loop (server.rs, handle_client / handle_message) and the batcher that   *)
(* forwards dispatch directives to the compositor socket (hypr.rs).        *)
(*                                                                         *)
(* Text is a sequence of atoms.  Every character a client sends is one     *)
(* atom (a one-character string); a literal the program itself emits in    *)
(* one piece (the batch marker, a directive prefix, an error message) is   *)
(* one atom as well.  No emitted literal is ever parsed again, so the      *)
(* parsers only ever look at one-character atoms.                          *)
(***************************************************************************)
EXTENDS Integers, Sequences, FiniteSets, TLC

(***************************************************************************)
(* Bounds of the model.                                                    *)
(***************************************************************************)
\* how many connections the accept loop takes in one behaviour
MaxAccepts == 3
\* how many directives the batcher is driven with in SpecHypr
MaxBatch == 3

\* how often the batcher opens the compositor socket in SpecHypr
MaxSends == 2

\* the connection slots: two clients are connected at the same time
Conns == {1, 2}

(***************************************************************************)
(* Characters and the words the clients send.                              *)
(***************************************************************************)
SP == " "
NL == "\n"
\* a byte that is not valid UTF-8
BAD == "\\xFF"

Digits == <<"0", "1", "2", "3", "4", "5", "6", "7", "8", "9">>

T_create == <<"c", "r", "e", "a", "t", "e">>
T_bind == <<"b", "i", "n", "d">>
T_unbind == <<"u", "n", "b", "i", "n", "d">>
T_go_to == <<"g", "o", "_", "t", "o">>
T_move_to == <<"m", "o", "v", "e", "_", "t", "o">>
T_read == <<"r", "e", "a", "d">>
T_flush == <<"f", "l", "u", "s", "h">>
T_goto == <<"g", "o", "t", "o">>
T_web == <<"w", "e", "b">>
T_code == <<"c", "o", "d", "e">>

(***************************************************************************)
(* str::split_once(' '): the text before and after the first space.        *)
(***************************************************************************)
RECURSIVE FindSpace(_, _)
FindSpace(s, i) ==
    IF i > Len(s) THEN 0
    ELSE IF s[i] = SP THEN i
    ELSE FindSpace(s, i + 1)

HasSpace(s) == FindSpace(s, 1) # 0
BeforeSpace(s) == SubSeq(s, 1, FindSpace(s, 1) - 1)
AfterSpace(s) == SubSeq(s, FindSpace(s, 1) + 1, Len(s))

(***************************************************************************)
(* AsyncBufReadExt::read_until(b'\n'): the bytes up to and including the   *)
(* first newline, or everything that is left when the peer has closed.     *)
(***************************************************************************)
RECURSIVE FindNL(_, _)
FindNL(s, i) ==
    IF i > Len(s) THEN 0
    ELSE IF s[i] = NL THEN i
    ELSE FindNL(s, i + 1)

HasLine(s) == FindNL(s, 1) # 0
read_until(s) == IF HasLine(s) THEN SubSeq(s, 1, FindNL(s, 1)) ELSE s
after_read_until(s) == IF HasLine(s) THEN SubSeq(s, FindNL(s, 1) + 1, Len(s)) ELSE <<>>

(***************************************************************************)
(* std::str::from_utf8: fails when the line holds an invalid byte.         *)
(***************************************************************************)
from_utf8_ok(s) == \A i \in 1..Len(s) : s[i] # BAD

(***************************************************************************)
(* Signature::parse_cmd                                                    *)
(***************************************************************************)
parse_cmd(input) ==
    IF input = <<>> THEN [some |-> FALSE, cmd |-> <<>>, rest |-> <<>>]
    ELSE IF HasSpace(input)
         THEN [some |-> TRUE, cmd |-> BeforeSpace(input), rest |-> AfterSpace(input)]
         ELSE [some |-> TRUE, cmd |-> input, rest |-> <<>>]

(***************************************************************************)
(* u8: FromStr (param.parse()) and Display.                                *)
(***************************************************************************)
U8_MAX == 255

DigitVal(ch) == (CHOOSE i \in 1..10 : Digits[i] = ch) - 1
IsDigit(ch) == \E i \in 1..10 : Digits[i] = ch

RECURSIVE DecValue(_, _)
\* the value of the digits of s read after the accumulator acc; -1 when a
\* character is no digit, -2 when the value leaves the range of a u8
DecValue(s, acc) ==
    IF s = <<>> THEN acc
    ELSE IF ~IsDigit(Head(s)) THEN -1
    ELSE IF acc * 10 + DigitVal(Head(s)) > U8_MAX THEN -2
    ELSE DecValue(Tail(s), acc * 10 + DigitVal(Head(s)))

parse_u8(param) ==
    LET body == IF param # <<>> /\ Head(param) = "+" THEN Tail(param) ELSE param
        v == DecValue(body, 0)
    IN  IF param = <<>> THEN [ok |-> FALSE, val |-> 0,
                              err |-> "cannot parse integer from empty string"]
        ELSE IF body = <<>> \/ v = -1 THEN [ok |-> FALSE, val |-> 0,
                              err |-> "invalid digit found in string"]
        ELSE IF v = -2 THEN [ok |-> FALSE, val |-> 0,
                              err |-> "number too large to fit in target type"]
        ELSE [ok |-> TRUE, val |-> v, err |-> ""]

RECURSIVE display_nat(_)
display_nat(n) ==
    IF n < 10 THEN <<Digits[n + 1]>>
    ELSE display_nat(n \div 10) \o <<Digits[(n % 10) + 1]>>

display_u8(n) == display_nat(n)

(***************************************************************************)
(* Type, FromType (server/signature/types.rs).  A requested type T is the  *)
(* pair T::TYPE = (type, required).                                        *)
(***************************************************************************)
T_STR == [ty |-> "Str", required |-> TRUE]
T_OPT_STR == [ty |-> "Str", required |-> FALSE]
T_U8 == [ty |-> "U8", required |-> TRUE]

\* a parsed value: text for &str, some/text for Option<&str>, num for u8
NoValue == [some |-> FALSE, text |-> <<>>, num |-> 0]

from_type(T, param) ==
    IF T.ty = "U8"
    THEN LET r == parse_u8(param)
         IN  [ok |-> r.ok, err |-> r.err,
              val |-> [some |-> r.ok, text |-> <<>>, num |-> r.val]]
    ELSE [ok |-> TRUE, err |-> "",
          val |-> [some |-> TRUE, text |-> param, num |-> 0]]

display_type(ty) == IF ty = "Str" THEN "&str" ELSE IF ty = "U8" THEN "u8" ELSE ""

(***************************************************************************)
(* Signature and its Display (server/signature.rs).                        *)
(***************************************************************************)
Param(name, ty) == [name |-> name, ty |-> ty]

CREATE == [cmd |-> T_create, params |-> <<Param("name", "Str")>>]
BIND == [cmd |-> T_bind, params |-> <<Param("name", "Str"), Param("register", "U8")>>]
UNBIND == [cmd |-> T_unbind, params |-> <<Param("register", "U8")>>]
GO_TO == [cmd |-> T_go_to, params |-> <<Param("register", "U8")>>]
MOVE_TO == [cmd |-> T_move_to, params |-> <<Param("register", "U8")>>]
READ == [cmd |-> T_read, params |-> <<Param("", "Opt"), Param("name", "Str")>>]
FLUSH == [cmd |-> T_flush, params |-> <<>>]

\* Signature::get: the parameter at a 0-based index
sig_has(sig, index) == index + 1 <= Len(sig.params)
sig_get(sig, index) == sig.params[index + 1]

RECURSIVE display_params(_, _, _)
display_params(params, i, optional) ==
    IF i > Len(params) THEN <<>>
    ELSE IF params[i].ty = "Opt" THEN
        (IF optional THEN <<"fmt::Error">> ELSE display_params(params, i + 1, TRUE))
    ELSE (IF optional
          THEN <<" [", params[i].name, ": ", display_type(params[i].ty), "]">>
          ELSE <<" <", params[i].name, ": ", display_type(params[i].ty), ">">>)
         \o display_params(params, i + 1, optional)

display_signature(sig) == sig.cmd \o display_params(sig.params, 1, FALSE)

(***************************************************************************)
(* SignatureParser (server/signature.rs).                                  *)
(***************************************************************************)
parser(sig, input) ==
    [signature |-> sig, is_required |-> TRUE, index |-> 0, input |-> input]

\* SignatureParser::err; accessed is NoAccess or a requested type
NoAccess == [ty |-> "None", required |-> FALSE]
sig_err(p, accessed, err) ==
    [expected |-> p.signature, index |-> p.index, is_required |-> p.is_required,
     accessed |-> accessed, err |-> err]

\* SignatureParser::split_param: the next token and the parser after it
split_param(p) ==
    IF p.input = <<>> THEN [some |-> FALSE, param |-> <<>>, p |-> p]
    ELSE IF HasSpace(p.input)
         THEN [some |-> TRUE, param |-> BeforeSpace(p.input),
               p |-> [p EXCEPT !.input = AfterSpace(p.input)]]
         ELSE [some |-> TRUE, param |-> p.input, p |-> [p EXCEPT !.input = <<>>]]

\* the loop at the head of parse_param: step over optional-markers
RECURSIVE skip_opt(_)
skip_opt(p) ==
    IF ~sig_has(p.signature, p.index) THEN p
    ELSE IF sig_get(p.signature, p.index).ty = "Opt"
         THEN skip_opt([p EXCEPT !.is_required = FALSE, !.index = p.index + 1])
         ELSE p

parse_param(p0, T) ==
    LET p == skip_opt(p0)
    IN  IF ~sig_has(p.signature, p.index)
        THEN [ok |-> FALSE, p |-> p, val |-> NoValue, err |-> sig_err(p, T, "")]
        ELSE IF [ty |-> sig_get(p.signature, p.index).ty, required |-> p.is_required] # T
        THEN [ok |-> FALSE, p |-> p, val |-> NoValue, err |-> sig_err(p, T, "")]
        ELSE LET sp == split_param(p)
             IN  IF sp.some
                 THEN LET out == from_type(T, sp.param)
                      IN  [ok |-> out.ok,
                           p |-> [sp.p EXCEPT !.index = p.index + 1],
                           val |-> out.val,
                           err |-> sig_err(sp.p, T, out.err)]
                 ELSE IF p.is_required
                 THEN [ok |-> FALSE, p |-> p, val |-> NoValue, err |-> sig_err(p, T, "")]
                 ELSE [ok |-> TRUE, p |-> [p EXCEPT !.index = p.index + 1],
                       val |-> NoValue, err |-> sig_err(p, T, "")]

\* a finish that looks at the declared fields only
finish_fields_only(p) ==
    IF sig_has(p.signature, p.index)
    THEN [ok |-> FALSE, err |-> sig_err(p, NoAccess, "")]
    ELSE [ok |-> TRUE, err |-> sig_err(p, NoAccess, "")]

finish(p) ==
    IF sig_has(p.signature, p.index) \/ p.input # <<>>
    THEN [ok |-> FALSE, err |-> sig_err(p, NoAccess, "")]
    ELSE [ok |-> TRUE, err |-> sig_err(p, NoAccess, "")]

\* Display for SignatureError (DQUOTE is the double quote the format string
\* opens; the format strings' backquotes are written as apostrophes)
DQUOTE == "''"
display_signature_error(e) ==
    LET has == sig_has(e.expected, e.index)
        exp == sig_get(e.expected, e.index)
        acc == e.accessed
        req(b) == IF b THEN "required" ELSE "optional"
    IN  display_signature(e.expected) \o <<":\n">> \o
        (IF ~has /\ acc # NoAccess
         THEN <<"tried to access ", req(acc.required), " field of type '",
                display_type(acc.ty),
                "', expected to be done with parsing input\n">>
         ELSE IF has /\ acc # NoAccess
         THEN <<exp.name, ": ">> \o
              (IF [ty |-> exp.ty, required |-> e.is_required] # acc
               THEN <<"failed to access type '", display_type(acc.ty),
                      "', expected '", display_type(exp.ty), "'\n">>
               ELSE IF e.err # ""
               THEN <<"failed parsing type '", display_type(acc.ty),
                      "' with ", DQUOTE, e.err, "\n">>
               ELSE <<"missing input for required argument of type '",
                      display_type(exp.ty), "'\n">>)
         ELSE IF has
         THEN <<"tries to stop parsing, but signature is expecting ",
                req(e.is_required), " field '", exp.name, "' of type '",
                display_type(exp.ty), "'\n">>
         ELSE <<"expected to be done with parsing, but still has remaining input\n">>)

(***************************************************************************)
(* Hypr, the batcher (hypr.rs).                                            *)
(***************************************************************************)
BATCH == <<"[[BATCH]]">>

\* Hypr::new: the buffer starts as the batch marker
hypr_new == BATCH

\* a clear that truncates nothing
clear_nothing(buffer) == buffer

\* Hypr::clear: truncate the buffer to the marker
clear(buffer) == SubSeq(buffer, 1, Len(BATCH))

\* an i32 with "{}" and with "{:+}"
display_i32(i) == IF i < 0 THEN <<"-">> \o display_nat(0 - i) ELSE display_nat(i)
display_i32_plus(i) == IF i < 0 THEN display_i32(i) ELSE <<"+">> \o display_nat(i)

\* Display of what go_to / move_to are called with.  hypr.rs declares the
\* argument as its enum Workspace; Server::handle_message passes the text
\* of the register's target (kind "Str"), whose Display is the text itself.
display_workspace(w) ==
    CASE w.kind = "Str" -> w.name
      [] w.kind = "Id" -> display_i32(w.id)
      [] w.kind = "RelativeId" -> display_i32_plus(w.id)
      [] w.kind = "RelativeMonitor" -> <<"m">> \o display_i32_plus(w.id)
      [] w.kind = "RelativeMonitorEmpty" -> <<"r">> \o display_i32_plus(w.id)
      [] w.kind = "RelativeOpen" -> <<"e">> \o display_i32_plus(w.id)
      [] w.kind = "Previous" -> <<"previous">>
      [] w.kind = "Empty" -> <<"empty">>
      [] w.kind = "Name" -> <<"name:">> \o w.name
      [] w.kind = "Special" -> <<"special">>
      [] w.kind = "SpecialName" -> <<"special:">> \o w.name

WsStr(name) == [kind |-> "Str", name |-> name, id |-> 0]
WsName(name) == [kind |-> "Name", name |-> name, id |-> 0]
WsId(kind, id) == [kind |-> kind, name |-> <<>>, id |-> id]

\* a go_to that puts the directive in front of the buffered ones
go_to_front(buffer, workspace) ==
    SubSeq(buffer, 1, Len(BATCH))
        \o <<"/dispatch workspace ">> \o display_workspace(workspace) \o <<";">>
        \o SubSeq(buffer, Len(BATCH) + 1, Len(buffer))

\* a go_to that leaves out the statement separator
go_to_unterminated(buffer, workspace) ==
    buffer \o <<"/dispatch workspace ">> \o display_workspace(workspace)

\* Hypr::go_to, Hypr::move_to: append one directive to the buffer
go_to(buffer, workspace) ==
    buffer \o <<"/dispatch workspace ">> \o display_workspace(workspace) \o <<";">>

move_to(buffer, workspace) ==
    buffer \o <<"/dispatch movetoworkspacesilent ">> \o display_workspace(workspace)
           \o <<";">>

\* a flush that also sends a buffer that holds the marker only
flush_sends_marker(buffer) == Len(BATCH) <= Len(buffer)

\* Hypr::flush: it sends only when the buffer holds more than the marker
flush_sends(buffer) == Len(BATCH) < Len(buffer)

(***************************************************************************)
(* Inner, the registry (server.rs).  workspaces maps a name to its         *)
(* settings; registers maps a register to its target: the name and the     *)
(* allocation (Arc<str>) the name lives in, "key" when the register shares *)
(* the allocation of the workspace's key and "own" when bind allocated the *)
(* text for this register alone.                                           *)
(***************************************************************************)
WorkspaceSettings == "WorkspaceSettings"

\* a create that takes every entry for vacant
occupied_never(ws, name) == FALSE

\* Entry::Vacant / Entry::Occupied of workspaces.entry(name)
occupied(ws, name) == name \in DOMAIN ws

vacant_insert(ws, name) ==
    [n \in DOMAIN ws \cup {name} |-> IF n = name THEN WorkspaceSettings ELSE ws[n]]

\* bind: the key of the workspace when there is one, else a new allocation
bind_target(ws, name) ==
    IF name \in DOMAIN ws THEN [name |-> name, arc |-> "key"]
    ELSE [name |-> name, arc |-> "own"]

\* an insert that builds the map anew from the one binding
registers_insert_alone(regs, register, target) ==
    [r \in {register} |-> target]

registers_insert(regs, register, target) ==
    [r \in DOMAIN regs \cup {register} |-> IF r = register THEN target ELSE regs[r]]

\* a remove that leaves the map as it is
registers_remove_nothing(regs, register) == regs

registers_remove(regs, register) ==
    [r \in DOMAIN regs \ {register} |-> regs[r]]

\* a get that yields the empty name for a register without a target
registers_get_or_default(regs, register) ==
    IF register \in DOMAIN regs
    THEN [some |-> TRUE, name |-> regs[register].name]
    ELSE [some |-> TRUE, name |-> <<>>]

\* registers.get(&register)
registers_get(regs, register) ==
    IF register \in DOMAIN regs
    THEN [some |-> TRUE, name |-> regs[register].name]
    ELSE [some |-> FALSE, name |-> <<>>]

\* the line the read handler writes for one workspace
read_line(name, settings) == name \o <<": ", settings, "\n">>

RECURSIVE read_lines(_, _)
read_lines(order, ws) ==
    IF order = <<>> THEN <<>>
    ELSE read_line(Head(order), ws[Head(order)]) \o read_lines(Tail(order), ws)

\* the orders in which a HashMap may iterate its keys
IterOrders(S) ==
    {o \in [1..Cardinality(S) -> S] : \A i, j \in 1..Cardinality(S) : o[i] = o[j] => i = j}

(***************************************************************************)
(* The first lines of each arm of Server::handle_message: the parameters   *)
(* of the command, or the text of the error the parser returned.           *)
(***************************************************************************)
ParseErr(e) == [ok |-> FALSE, err |-> display_signature_error(e),
                name |-> <<>>, register |-> 0, some |-> FALSE]
Parsed(name, register, some) ==
    [ok |-> TRUE, err |-> <<>>, name |-> name, register |-> register, some |-> some]

parse_create(input) ==
    LET name == parse_param(parser(CREATE, input), T_STR)
        fin == finish(name.p)
    IN  IF ~name.ok THEN ParseErr(name.err)
        ELSE IF ~fin.ok THEN ParseErr(fin.err)
        ELSE Parsed(name.val.text, 0, TRUE)

parse_bind(input) ==
    LET name == parse_param(parser(BIND, input), T_STR)
        register == parse_param(name.p, T_U8)
        fin == finish(register.p)
    IN  IF ~name.ok THEN ParseErr(name.err)
        ELSE IF ~register.ok THEN ParseErr(register.err)
        ELSE IF ~fin.ok THEN ParseErr(fin.err)
        ELSE Parsed(name.val.text, register.val.num, TRUE)

\* unbind, go_to and move_to take one register
parse_register(sig, input) ==
    LET register == parse_param(parser(sig, input), T_U8)
        fin == finish(register.p)
    IN  IF ~register.ok THEN ParseErr(register.err)
        ELSE IF ~fin.ok THEN ParseErr(fin.err)
        ELSE Parsed(<<>>, register.val.num, TRUE)

parse_read(input) ==
    LET name == parse_param(parser(READ, input), T_OPT_STR)
        fin == finish(name.p)
    IN  IF ~name.ok THEN ParseErr(name.err)
        ELSE IF ~fin.ok THEN ParseErr(fin.err)
        ELSE Parsed(name.val.text, 0, name.val.some)

parse_flush(input) ==
    LET fin == finish(parser(FLUSH, input))
    IN  IF ~fin.ok THEN ParseErr(fin.err) ELSE Parsed(<<>>, 0, FALSE)

Commands == {T_create, T_bind, T_unbind, T_go_to, T_move_to, T_read, T_flush}

unbound_register(register) ==
    <<"register ">> \o display_u8(register) \o <<" does not point to any workspace">>

invalid_command(cmd) == <<"expected valid command, got '">> \o cmd \o <<"'">>

(***************************************************************************)
(* What the clients send.  A script is everything one client writes to its *)
(* connection, and whether it then shuts down its write side.              *)
(***************************************************************************)
Script(bytes, closes) == [bytes |-> bytes, closes |-> closes]

\* the newline-terminated commands create web, bind web 3, goto 3, flush
ScenarioBytes ==
    T_create \o <<SP>> \o T_web \o <<NL>> \o
    T_bind \o <<SP>> \o T_web \o <<SP, "3", NL>> \o
    T_goto \o <<SP, "3", NL>> \o T_flush \o <<NL>>

\* a byte that is no UTF-8, an empty line, a bind without its register, a
\* flush with a word after it, and then a create that is well-formed
RejectedBytes ==
    <<BAD, NL>> \o <<NL>> \o
    T_bind \o <<SP>> \o T_web \o <<NL>> \o
    T_flush \o <<SP>> \o T_code \o <<NL>> \o
    T_create \o <<SP>> \o T_web

Scripts ==
    { Script(ScenarioBytes, TRUE),
      Script(RejectedBytes, TRUE),
      Script(T_read \o <<SP>> \o T_web, TRUE),
      Script(T_create \o <<SP>> \o T_web, TRUE),
      Script(T_bind \o <<SP>> \o T_web \o <<SP, "3">>, TRUE),
      Script(T_bind \o <<SP>> \o T_code \o <<SP, "3">>, TRUE),
      Script(T_bind \o <<SP>> \o T_web \o <<SP, "5">>, TRUE),
      Script(T_unbind \o <<SP, "3">>, TRUE),
      Script(T_go_to \o <<SP, "3">>, TRUE),
      Script(T_move_to \o <<SP, "3">>, TRUE),
      Script(T_read, TRUE),
      Script(T_create \o <<SP>> \o T_web \o <<NL>> \o
             T_create \o <<SP>> \o T_code \o <<NL>> \o T_read, TRUE),
      Script(T_flush, TRUE) }

\* what the compositor answers to one batch
CompReplies == {<<>>, <<"ok">>}

\* where Hypr::send can fail: connecting, writing, reading the reply
SendStages == {"connect", "write", "read"}
send_error(stage) == <<"hypr socket: " \o stage \o " failed">>

\* what the batcher is called with when it is driven directly
HyprWorkspaces == {WsName(T_web), WsId("Id", 2)}

(***************************************************************************)
(* State.                                                                  *)
(***************************************************************************)
VARIABLES
    workspaces,  \* Inner.workspaces
    registers,   \* Inner.registers
    readers,     \* the connections that hold the RwLock for reading
    accepted,    \* how many connections the accept loop has taken
    pc,          \* where each connection's task is
    wire,        \* the bytes a client has sent that the task has not read
    peer_open,   \* whether the client may still send (no EOF yet)
    client_tx,   \* everything the client has written to the connection
    input_buf,   \* handle_client's input_buf
    hypr,        \* Hypr.buffer of the connection
    reply_buf,   \* handle_client's reply_buf
    stream_buf,  \* the bytes BufStream holds that it has not written out
    client_rx,   \* the bytes written to the client's socket
    hypr_tx,     \* the writes the compositor socket got from the connection
    connects,    \* how often the connection opened the compositor socket
    calls,       \* history: the go_to / move_to calls made on the connection
    flushed      \* history: how many of these calls a flush has delivered

vars == <<workspaces, registers, readers, accepted, pc, wire, peer_open,
          client_tx, input_buf, hypr, reply_buf, stream_buf, client_rx, hypr_tx,
          connects, calls, flushed>>

registry == <<workspaces, registers>>
peer == <<peer_open, client_tx>>
client_io == <<stream_buf, client_rx>>
hypr_io == <<hypr, hypr_tx, connects, calls, flushed>>

Init ==
    /\ workspaces = <<>>
    /\ registers = <<>>
    /\ readers = {}
    /\ accepted = 0
    /\ pc = [c \in Conns |-> "free"]
    /\ wire = [c \in Conns |-> <<>>]
    /\ peer_open = [c \in Conns |-> FALSE]
    /\ client_tx = [c \in Conns |-> <<>>]
    /\ input_buf = [c \in Conns |-> <<>>]
    /\ hypr = [c \in Conns |-> hypr_new]
    /\ reply_buf = [c \in Conns |-> <<>>]
    /\ stream_buf = [c \in Conns |-> <<>>]
    /\ client_rx = [c \in Conns |-> <<>>]
    /\ hypr_tx = [c \in Conns |-> <<>>]
    /\ connects = [c \in Conns |-> 0]
    /\ calls = [c \in Conns |-> <<>>]
    /\ flushed = [c \in Conns |-> 0]

(***************************************************************************)
(* Server::run: accept a connection and spawn handle_client for it.        *)
(***************************************************************************)
Accept(c, s) ==
    /\ pc[c] \in {"free", "done", "failed"}
    /\ accepted < MaxAccepts
    /\ accepted' = accepted + 1
    /\ pc' = [pc EXCEPT ![c] = "loop"]
    /\ wire' = [wire EXCEPT ![c] = s.bytes]
    /\ peer_open' = [peer_open EXCEPT ![c] = ~s.closes]
    /\ client_tx' = [client_tx EXCEPT ![c] = s.bytes]
    /\ input_buf' = [input_buf EXCEPT ![c] = <<>>]
    /\ hypr' = [hypr EXCEPT ![c] = hypr_new]
    /\ reply_buf' = [reply_buf EXCEPT ![c] = <<>>]
    /\ stream_buf' = [stream_buf EXCEPT ![c] = <<>>]
    /\ client_rx' = [client_rx EXCEPT ![c] = <<>>]
    /\ hypr_tx' = [hypr_tx EXCEPT ![c] = <<>>]
    /\ connects' = [connects EXCEPT ![c] = 0]
    /\ calls' = [calls EXCEPT ![c] = <<>>]
    /\ flushed' = [flushed EXCEPT ![c] = 0]
    /\ UNCHANGED <<workspaces, registers, readers>>

(***************************************************************************)
(* Server::handle_client, the loop: read_until returns one message.        *)
(***************************************************************************)
\* read_until returns: a whole line is there, or the client has closed
Readable(c) == pc[c] = "loop" /\ (HasLine(wire[c]) \/ ~peer_open[c])
Line(c) == read_until(wire[c])
Cmd(c) == parse_cmd(Line(c))

\* the message is not empty, is UTF-8 and names the command cmd
Is(c, cmd) ==
    /\ Readable(c)
    /\ Line(c) # <<>>
    /\ from_utf8_ok(Line(c))
    /\ Cmd(c).some
    /\ Cmd(c).cmd = cmd

\* input_buf.clear(); stream.read_until(b'\n', &mut input_buf)
Consume(c) ==
    /\ wire' = [wire EXCEPT ![c] = after_read_until(@)]
    /\ input_buf' = [input_buf EXCEPT ![c] = Line(c)]

\* an error arm that leaves the text in the BufStream
ReplyErr_buffered(c, text) ==
    /\ stream_buf' = [stream_buf EXCEPT ![c] = @ \o text]
    /\ UNCHANGED client_rx

\* handle_message returned an error: its text is written and flushed
ReplyErr(c, text) ==
    /\ stream_buf' = [stream_buf EXCEPT ![c] = <<>>]
    /\ client_rx' = [client_rx EXCEPT ![c] = @ \o stream_buf[c] \o text]

\* stream.write_all(reply); reply.clear()
WriteReply(c, reply) ==
    /\ stream_buf' = [stream_buf EXCEPT ![c] = @ \o reply]
    /\ reply_buf' = [reply_buf EXCEPT ![c] = <<>>]

\* stream.write_all(reply); reply.clear(); stream.flush()
WriteReplyFlush(c, reply) ==
    /\ stream_buf' = [stream_buf EXCEPT ![c] = <<>>]
    /\ client_rx' = [client_rx EXCEPT ![c] = @ \o stream_buf[c] \o reply]
    /\ reply_buf' = [reply_buf EXCEPT ![c] = <<>>]

\* from_utf8 fails, or the command is none of the match arms
Invalid(c) ==
    /\ Readable(c)
    /\ Line(c) # <<>>
    /\ ~from_utf8_ok(Line(c)) \/ ~Cmd(c).some \/ Cmd(c).cmd \notin Commands
    /\ Consume(c)
    /\ ReplyErr(c, IF ~from_utf8_ok(Line(c)) THEN <<"invalid utf-8 sequence">>
                   ELSE IF ~Cmd(c).some THEN <<"expected param">>
                   ELSE invalid_command(Cmd(c).cmd))
    /\ UNCHANGED <<registry, readers, accepted, pc, peer, reply_buf, hypr_io>>

\* the writers take the lock only after the parameters have parsed; the
\* write lock is free when no connection holds the lock for reading
Create(c) ==
    /\ Is(c, T_create)
    /\ LET p == parse_create(Cmd(c).rest)
       IN  IF ~p.ok THEN ReplyErr(c, p.err) /\ UNCHANGED workspaces
           ELSE /\ readers = {}
                /\ IF occupied(workspaces, p.name)
                   THEN ReplyErr(c, <<"name already in use">>) /\ UNCHANGED workspaces
                   ELSE /\ workspaces' = vacant_insert(workspaces, p.name)
                        /\ UNCHANGED client_io
    /\ Consume(c)
    /\ UNCHANGED <<registers, readers, accepted, pc, peer, reply_buf, hypr_io>>

\* a bind that creates the workspace it names when there is none
Bind_creating(c) ==
    /\ Is(c, T_bind)
    /\ LET p == parse_bind(Cmd(c).rest)
       IN  IF ~p.ok THEN ReplyErr(c, p.err) /\ UNCHANGED <<workspaces, registers>>
           ELSE /\ readers = {}
                /\ workspaces' = vacant_insert(workspaces, p.name)
                /\ registers' = registers_insert(registers, p.register,
                                                 bind_target(workspaces', p.name))
                /\ UNCHANGED client_io
    /\ Consume(c)
    /\ UNCHANGED <<readers, accepted, pc, peer, reply_buf, hypr_io>>

Bind(c) ==
    /\ Is(c, T_bind)
    /\ LET p == parse_bind(Cmd(c).rest)
       IN  IF ~p.ok THEN ReplyErr(c, p.err) /\ UNCHANGED registers
           ELSE /\ readers = {}
                /\ registers' = registers_insert(registers, p.register,
                                                 bind_target(workspaces, p.name))
                /\ UNCHANGED client_io
    /\ Consume(c)
    /\ UNCHANGED <<workspaces, readers, accepted, pc, peer, reply_buf, hypr_io>>

\* an unbind that also drops the directives every connection has buffered
Unbind_cancelling(c) ==
    /\ Is(c, T_unbind)
    /\ LET p == parse_register(UNBIND, Cmd(c).rest)
       IN  IF ~p.ok THEN ReplyErr(c, p.err) /\ UNCHANGED <<registers, hypr>>
           ELSE /\ readers = {}
                /\ registers' = registers_remove(registers, p.register)
                /\ hypr' = [d \in Conns |-> clear(hypr[d])]
                /\ UNCHANGED client_io
    /\ Consume(c)
    /\ UNCHANGED <<workspaces, readers, accepted, pc, peer, reply_buf, hypr_tx,
                   connects, calls, flushed>>

\* an unbind that refuses a register without a target
Unbind_strict(c) ==
    /\ Is(c, T_unbind)
    /\ LET p == parse_register(UNBIND, Cmd(c).rest)
       IN  IF ~p.ok THEN ReplyErr(c, p.err) /\ UNCHANGED registers
           ELSE /\ readers = {}
                /\ IF p.register \in DOMAIN registers
                   THEN /\ registers' = registers_remove(registers, p.register)
                        /\ UNCHANGED client_io
                   ELSE ReplyErr(c, unbound_register(p.register)) /\ UNCHANGED registers
    /\ Consume(c)
    /\ UNCHANGED <<workspaces, readers, accepted, pc, peer, reply_buf, hypr_io>>

Unbind(c) ==
    /\ Is(c, T_unbind)
    /\ LET p == parse_register(UNBIND, Cmd(c).rest)
       IN  IF ~p.ok THEN ReplyErr(c, p.err) /\ UNCHANGED registers
           ELSE /\ readers = {}
                /\ registers' = registers_remove(registers, p.register)
                /\ UNCHANGED client_io
    /\ Consume(c)
    /\ UNCHANGED <<workspaces, readers, accepted, pc, peer, reply_buf, hypr_io>>

\* go_to and move_to hold the lock for reading while they append; nothing
\* suspends between taking and dropping it
GoTo(c) ==
    /\ Is(c, T_go_to)
    /\ LET p == parse_register(GO_TO, Cmd(c).rest)
           name == registers_get(registers, p.register)
       IN  IF ~p.ok THEN ReplyErr(c, p.err) /\ UNCHANGED <<hypr, calls>>
           ELSE IF ~name.some
           THEN ReplyErr(c, unbound_register(p.register)) /\ UNCHANGED <<hypr, calls>>
           ELSE /\ hypr' = [hypr EXCEPT ![c] = go_to(@, WsStr(name.name))]
                /\ calls' = [calls EXCEPT ![c] =
                                Append(@, [op |-> "go_to", workspace |-> WsStr(name.name)])]
                /\ UNCHANGED client_io
    /\ Consume(c)
    /\ UNCHANGED <<registry, readers, accepted, pc, peer, reply_buf, hypr_tx,
                   connects, flushed>>

MoveTo(c) ==
    /\ Is(c, T_move_to)
    /\ LET p == parse_register(MOVE_TO, Cmd(c).rest)
           name == registers_get(registers, p.register)
       IN  IF ~p.ok THEN ReplyErr(c, p.err) /\ UNCHANGED <<hypr, calls>>
           ELSE IF ~name.some
           THEN ReplyErr(c, unbound_register(p.register)) /\ UNCHANGED <<hypr, calls>>
           ELSE /\ hypr' = [hypr EXCEPT ![c] = move_to(@, WsStr(name.name))]
                /\ calls' = [calls EXCEPT ![c] =
                                Append(@, [op |-> "move_to", workspace |-> WsStr(name.name)])]
                /\ UNCHANGED client_io
    /\ Consume(c)
    /\ UNCHANGED <<registry, readers, accepted, pc, peer, reply_buf, hypr_tx,
                   connects, flushed>>

\* read: take the lock for reading, format the reply, start write_all
the_reply(name, some, order) ==
    IF some
    THEN (IF name \in DOMAIN workspaces THEN read_line(name, workspaces[name]) ELSE <<>>)
    ELSE read_lines(order, workspaces)

Read(c) ==
    /\ Is(c, T_read)
    /\ LET p == parse_read(Cmd(c).rest)
       IN  IF ~p.ok
           THEN ReplyErr(c, p.err) /\ UNCHANGED <<readers, pc, reply_buf>>
           ELSE /\ \E order \in IterOrders(DOMAIN workspaces) :
                      reply_buf' = [reply_buf EXCEPT ![c] =
                                        @ \o the_reply(p.name, p.some, order)]
                /\ readers' = readers \cup {c}
                /\ pc' = [pc EXCEPT ![c] = "read_write"]
                /\ UNCHANGED client_io
    /\ Consume(c)
    /\ UNCHANGED <<registry, accepted, peer, hypr_io>>

\* read: write_all returns, the reply is cleared and the lock is dropped
ReadWritten(c) ==
    /\ pc[c] = "read_write"
    /\ WriteReply(c, reply_buf[c])
    /\ readers' = readers \ {c}
    /\ pc' = [pc EXCEPT ![c] = "loop"]
    /\ UNCHANGED <<registry, accepted, wire, peer, input_buf, client_rx, hypr_io>>

\* flush: Hypr::flush sends when the buffer holds directives, and else the
\* handler goes on at once
Flush(c) ==
    /\ Is(c, T_flush)
    /\ LET p == parse_flush(Cmd(c).rest)
       IN  IF ~p.ok THEN ReplyErr(c, p.err) /\ UNCHANGED <<pc, reply_buf>>
           ELSE IF flush_sends(hypr[c])
           THEN pc' = [pc EXCEPT ![c] = "flush_send"] /\ UNCHANGED <<client_io, reply_buf>>
           ELSE WriteReplyFlush(c, reply_buf[c]) /\ UNCHANGED pc
    /\ Consume(c)
    /\ UNCHANGED <<registry, readers, accepted, peer, hypr_io>>

\* a teardown that keeps the registry locked for reading while it sends
Teardown_locked(c) ==
    /\ Readable(c)
    /\ Line(c) = <<>>
    /\ IF flush_sends(hypr[c])
       THEN /\ pc' = [pc EXCEPT ![c] = "teardown_send"]
            /\ readers' = readers \cup {c}
            /\ UNCHANGED <<client_io, reply_buf>>
       ELSE /\ WriteReply(c, reply_buf[c])
            /\ pc' = [pc EXCEPT ![c] = "done"]
            /\ UNCHANGED <<client_rx, readers>>
    /\ input_buf' = [input_buf EXCEPT ![c] = <<>>]
    /\ UNCHANGED <<registry, accepted, wire, peer, hypr_io>>

\* read_until returned no byte: leave the loop and flush what is buffered
Teardown(c) ==
    /\ Readable(c)
    /\ Line(c) = <<>>
    /\ IF flush_sends(hypr[c])
       THEN pc' = [pc EXCEPT ![c] = "teardown_send"] /\ UNCHANGED <<client_io, reply_buf>>
       ELSE /\ WriteReply(c, reply_buf[c])
            /\ pc' = [pc EXCEPT ![c] = "done"]
            /\ UNCHANGED client_rx
    /\ input_buf' = [input_buf EXCEPT ![c] = <<>>]
    /\ UNCHANGED <<registry, readers, accepted, wire, peer, hypr_io>>

(***************************************************************************)
(* Hypr::send and what follows it.                                         *)
(***************************************************************************)
Sending(c) == pc[c] \in {"flush_send", "teardown_send"}

\* Hypr::send returns Ok: the compositor got the buffer in one write and
\* its answer is in reply; Hypr::flush clears the buffer
SendOk(c, answer) ==
    /\ Sending(c)
    /\ connects' = [connects EXCEPT ![c] = @ + 1]
    /\ hypr_tx' = [hypr_tx EXCEPT ![c] = Append(@, hypr[c])]
    /\ hypr' = [hypr EXCEPT ![c] = clear(@)]
    /\ flushed' = [flushed EXCEPT ![c] = Len(calls[c])]
    /\ IF pc[c] = "flush_send"
       THEN /\ WriteReplyFlush(c, reply_buf[c] \o answer)
            /\ pc' = [pc EXCEPT ![c] = "loop"]
       ELSE /\ WriteReply(c, reply_buf[c] \o answer)
            /\ pc' = [pc EXCEPT ![c] = "done"]
            /\ UNCHANGED client_rx
    /\ UNCHANGED <<registry, readers, accepted, wire, peer, input_buf, calls>>

\* Hypr::send returns an error: the buffer is kept.  A flush request hands
\* the error to handle_client, which reports it; the teardown flush ends
\* the task with it
SendFail(c, stage) ==
    /\ Sending(c)
    /\ connects' = [connects EXCEPT ![c] = IF stage = "connect" THEN @ ELSE @ + 1]
    /\ hypr_tx' = [hypr_tx EXCEPT ![c] = IF stage = "read" THEN Append(@, hypr[c]) ELSE @]
    /\ IF pc[c] = "flush_send"
       THEN /\ ReplyErr(c, send_error(stage))
            /\ pc' = [pc EXCEPT ![c] = "loop"]
       ELSE /\ pc' = [pc EXCEPT ![c] = "failed"]
            /\ UNCHANGED client_io
    /\ UNCHANGED <<registry, readers, accepted, wire, peer, input_buf, hypr,
                   reply_buf, calls, flushed>>

Next ==
    \/ \E c \in Conns, s \in Scripts : Accept(c, s)
    \/ \E c \in Conns : Invalid(c)
    \/ \E c \in Conns : Create(c)
    \/ \E c \in Conns : Bind(c)
    \/ \E c \in Conns : Unbind(c)
    \/ \E c \in Conns : GoTo(c)
    \/ \E c \in Conns : MoveTo(c)
    \/ \E c \in Conns : Read(c)
    \/ \E c \in Conns : ReadWritten(c)
    \/ \E c \in Conns : Flush(c)
    \/ \E c \in Conns : Teardown(c)
    \/ \E c \in Conns, answer \in CompReplies : SendOk(c, answer)
    \/ \E c \in Conns, stage \in SendStages : SendFail(c, stage)

Spec == Init /\ [][Next]_vars

(***************************************************************************)
(* The batcher driven directly: a caller that owns one Hypr calls go_to,   *)
(* move_to and flush in any order, with any workspace, with or without a   *)
(* destination for the reply.  The caller is connection slot 1.            *)
(***************************************************************************)
HyprInit ==
    /\ workspaces = <<>>
    /\ registers = <<>>
    /\ readers = {}
    /\ accepted = 0
    /\ pc = [c \in Conns |-> IF c = 1 THEN "api" ELSE "free"]
    /\ wire = [c \in Conns |-> <<>>]
    /\ peer_open = [c \in Conns |-> FALSE]
    /\ client_tx = [c \in Conns |-> <<>>]
    /\ input_buf = [c \in Conns |-> <<>>]
    /\ hypr = [c \in Conns |-> hypr_new]
    /\ reply_buf = [c \in Conns |-> <<>>]
    /\ stream_buf = [c \in Conns |-> <<>>]
    /\ client_rx = [c \in Conns |-> <<>>]
    /\ hypr_tx = [c \in Conns |-> <<>>]
    /\ connects = [c \in Conns |-> 0]
    /\ calls = [c \in Conns |-> <<>>]
    /\ flushed = [c \in Conns |-> 0]

server_state == <<workspaces, registers, readers, accepted, wire, peer,
                  input_buf, stream_buf, client_rx>>

HyprGoTo(c, w) ==
    /\ pc[c] = "api"
    /\ Len(calls[c]) < MaxBatch
    /\ hypr' = [hypr EXCEPT ![c] = go_to(@, w)]
    /\ calls' = [calls EXCEPT ![c] = Append(@, [op |-> "go_to", workspace |-> w])]
    /\ UNCHANGED <<server_state, pc, reply_buf, hypr_tx, connects, flushed>>

HyprMoveTo(c, w) ==
    /\ pc[c] = "api"
    /\ Len(calls[c]) < MaxBatch
    /\ hypr' = [hypr EXCEPT ![c] = move_to(@, w)]
    /\ calls' = [calls EXCEPT ![c] = Append(@, [op |-> "move_to", workspace |-> w])]
    /\ UNCHANGED <<server_state, pc, reply_buf, hypr_tx, connects, flushed>>

\* Hypr::flush(reply): nothing happens when the buffer holds the marker only
HyprFlush(c, with_reply) ==
    /\ pc[c] = "api"
    /\ connects[c] < MaxSends
    /\ pc' = [pc EXCEPT ![c] = IF ~flush_sends(hypr[c]) THEN "api"
                               ELSE IF with_reply THEN "api_send_reply"
                               ELSE "api_send"]
    /\ UNCHANGED <<server_state, reply_buf, hypr_io>>

HyprSendOk(c, answer) ==
    /\ pc[c] \in {"api_send", "api_send_reply"}
    /\ connects' = [connects EXCEPT ![c] = @ + 1]
    /\ hypr_tx' = [hypr_tx EXCEPT ![c] = Append(@, hypr[c])]
    /\ reply_buf' = [reply_buf EXCEPT ![c] =
                        IF pc[c] = "api_send_reply" THEN @ \o answer ELSE @]
    /\ hypr' = [hypr EXCEPT ![c] = clear(@)]
    /\ flushed' = [flushed EXCEPT ![c] = Len(calls[c])]
    /\ pc' = [pc EXCEPT ![c] = "api"]
    /\ UNCHANGED <<server_state, calls>>

HyprSendFail(c, stage) ==
    /\ pc[c] \in {"api_send", "api_send_reply"}
    /\ stage = "read" => pc[c] = "api_send_reply"
    /\ connects' = [connects EXCEPT ![c] = IF stage = "connect" THEN @ ELSE @ + 1]
    /\ hypr_tx' = [hypr_tx EXCEPT ![c] = IF stage = "read" THEN Append(@, hypr[c]) ELSE @]
    /\ pc' = [pc EXCEPT ![c] = "api"]
    /\ UNCHANGED <<server_state, hypr, reply_buf, calls, flushed>>

HyprNext ==
    \/ \E w \in HyprWorkspaces : HyprGoTo(1, w)
    \/ \E w \in HyprWorkspaces : HyprMoveTo(1, w)
    \/ \E with_reply \in BOOLEAN : HyprFlush(1, with_reply)
    \/ \E answer \in CompReplies : HyprSendOk(1, answer)
    \/ \E stage \in SendStages : HyprSendFail(1, stage)

SpecHypr == HyprInit /\ [][HyprNext]_vars

(***************************************************************************)
(* Vocabulary of the properties.                                           *)
(***************************************************************************)
\* the step handles one message of connection c (the message is Line(c))
Handled(c) == pc[c] = "loop" /\ wire'[c] # wire[c]

\* the request a message decodes to
Req(msg) ==
    LET m == parse_cmd(msg)
        bad == [op |-> "invalid", ok |-> FALSE, name |-> <<>>, register |-> 0,
                some |-> FALSE]
        as(op, p) == [op |-> op, ok |-> p.ok, name |-> p.name,
                      register |-> p.register, some |-> p.some]
    IN  IF ~from_utf8_ok(msg) \/ ~m.some THEN bad
        ELSE CASE m.cmd = T_create -> as("create", parse_create(m.rest))
               [] m.cmd = T_bind -> as("bind", parse_bind(m.rest))
               [] m.cmd = T_unbind -> as("unbind", parse_register(UNBIND, m.rest))
               [] m.cmd = T_go_to -> as("go_to", parse_register(GO_TO, m.rest))
               [] m.cmd = T_move_to -> as("move_to", parse_register(MOVE_TO, m.rest))
               [] m.cmd = T_read -> as("read", parse_read(m.rest))
               [] m.cmd = T_flush -> as("flush", parse_flush(m.rest))
               [] OTHER -> bad

\* the step handles a well-formed request op of connection c
Does(c, op) == Handled(c) /\ Req(Line(c)).op = op /\ Req(Line(c)).ok

\* the step reports the error text to the client of c, and nothing else
Reports(c, text) == client_rx'[c] = client_rx[c] \o stream_buf[c] \o text

\* the step writes nothing to the client of c
Silent(c) == client_rx'[c] = client_rx[c] /\ stream_buf'[c] = stream_buf[c]

Resolve(regs, r) == IF r \in DOMAIN regs THEN regs[r].name ELSE <<"(unbound)">>

EndsWith(text, tail) ==
    /\ Len(tail) <= Len(text)
    /\ SubSeq(text, Len(text) - Len(tail) + 1, Len(text)) = tail

(***************************************************************************)
(* C1: for every name n, a create(n) handled while n is no workspace yet   *)
(* succeeds (nothing is reported to the client) and adds n with empty      *)
(* settings, leaving every other workspace and the registers alone; a      *)
(* create(n) handled while n is a workspace reports "name already in use"  *)
(* and leaves workspaces and registers unchanged.  No step of any          *)
(* connection removes a workspace, so the create that finds n absent is    *)
(* the first one and every later one finds n present.                      *)
(***************************************************************************)
C1_CreateOnce ==
    [][/\ DOMAIN workspaces \subseteq DOMAIN workspaces'
       /\ \A c \in Conns :
            Does(c, "create") =>
                LET n == Req(Line(c)).name
                IN  IF n \notin DOMAIN workspaces
                    THEN /\ DOMAIN workspaces' = DOMAIN workspaces \cup {n}
                         /\ workspaces'[n] = WorkspaceSettings
                         /\ \A m \in DOMAIN workspaces : workspaces'[m] = workspaces[m]
                         /\ registers' = registers
                         /\ Silent(c)
                    ELSE /\ workspaces' = workspaces
                         /\ registers' = registers
                         /\ Reports(c, <<"name already in use">>)]_vars

\* a create of a name that is a workspace has just been refused, on a
\* connection other than the one that created it
C1_Witness ==
    \E c \in Conns :
        /\ pc[c] = "loop"
        /\ input_buf[c] = T_create \o <<SP>> \o T_web
        /\ T_web \in DOMAIN workspaces
        /\ client_rx[c] = <<"name already in use">>

(***************************************************************************)
(* C2: for every register r, what r resolves to changes only in a step     *)
(* that handles a bind(_, r) or an unbind(r); after a bind(n, r) is        *)
(* handled r resolves to n; and a go_to or move_to of r handled while r is *)
(* bound appends a directive that names what r resolves to at that         *)
(* moment.  So every resolve of r between a bind(n, r) and the next bind   *)
(* or unbind of r yields n, whatever other connections do with other       *)
(* registers or with create.                                               *)
(***************************************************************************)
C2_ResolveStable ==
    [][/\ \A r \in DOMAIN registers \cup DOMAIN registers' :
            Resolve(registers', r) # Resolve(registers, r) =>
                \E c \in Conns :
                    /\ Does(c, "bind") \/ Does(c, "unbind")
                    /\ Req(Line(c)).register = r
       /\ \A c \in Conns :
            Handled(c) =>
                LET req == Req(Line(c))
                IN  /\ (req.ok /\ req.op = "bind") =>
                        /\ req.register \in DOMAIN registers'
                        /\ Resolve(registers', req.register) = req.name
                    /\ (req.ok /\ req.op \in {"go_to", "move_to"}
                            /\ req.register \in DOMAIN registers) =>
                        /\ Len(hypr'[c]) > Len(hypr[c])
                        /\ EndsWith(hypr'[c],
                                    Resolve(registers, req.register) \o <<";">>)]_vars

\* register 3 was bound to web, register 5 was bound as well, and a go_to 3
\* of another connection has resolved 3 to web
C2_Witness ==
    \E c \in Conns :
        /\ pc[c] = "loop"
        /\ input_buf[c] = T_go_to \o <<SP, "3">>
        /\ 3 \in DOMAIN registers /\ registers[3].name = T_web
        /\ 5 \in DOMAIN registers
        /\ EndsWith(hypr[c], T_web \o <<";">>)

(***************************************************************************)
(* C3: an unbind(r) leaves r without a target; r gets a target again only  *)
(* in a step that handles a bind(_, r); and a go_to or move_to of a        *)
(* register without a target reports the unbound-register error.  So       *)
(* after an unbind(r) and before a later bind(_, r), resolving r fails     *)
(* with that error.                                                        *)
(***************************************************************************)
C3_UnboundFails ==
    [][/\ \A c \in Conns :
            Does(c, "unbind") => Req(Line(c)).register \notin DOMAIN registers'
       /\ \A r \in DOMAIN registers' \ DOMAIN registers :
            \E c \in Conns : Does(c, "bind") /\ Req(Line(c)).register = r
       /\ \A c \in Conns :
            ((Does(c, "go_to") \/ Does(c, "move_to"))
                /\ Req(Line(c)).register \notin DOMAIN registers) =>
                Reports(c, <<"register ">> \o display_u8(Req(Line(c)).register)
                           \o <<" does not point to any workspace">>)]_vars

\* one connection has handled unbind 3, register 3 has no target, and a
\* go_to 3 of the other connection was refused
C3_Witness ==
    \E c, d \in Conns :
        /\ c # d
        /\ pc[d] = "loop" /\ input_buf[d] = T_unbind \o <<SP, "3">> /\ wire[d] = <<>>
        /\ 3 \notin DOMAIN registers
        /\ pc[c] = "loop" /\ input_buf[c] = T_go_to \o <<SP, "3">>
        /\ client_rx[c] = <<"register ", "3", " does not point to any workspace">>

(***************************************************************************)
(* C4: an unbind(r) handled while r has no target writes nothing to the    *)
(* client (it succeeds), leaves workspaces and registers unchanged and     *)
(* keeps the connection in its loop; and after any unbind(r), removing r   *)
(* once more changes nothing.                                              *)
(***************************************************************************)
C4_UnbindIdempotent ==
    [][\A c \in Conns :
            Does(c, "unbind") =>
                /\ Req(Line(c)).register \notin DOMAIN registers =>
                        /\ Silent(c)
                        /\ workspaces' = workspaces
                        /\ registers' = registers
                        /\ pc'[c] = "loop"
                /\ registers_remove(registers', Req(Line(c)).register) = registers']_vars

\* unbind 3 was handled on the first connection ever, so 3 had no target
C4_Witness ==
    \E c \in Conns :
        /\ accepted = 1
        /\ pc[c] = "loop" /\ input_buf[c] = T_unbind \o <<SP, "3">> /\ wire[c] = <<>>
        /\ registers = <<>>
        /\ client_rx[c] = <<>> /\ stream_buf[c] = <<>>

(***************************************************************************)
(* C5: a go_to or move_to of a register without a target fails (an error   *)
(* is reported to the client), leaves the connection's batch buffer as it  *)
(* was, and neither opens nor writes to the compositor socket, for any     *)
(* connection.                                                             *)
(***************************************************************************)
C5_UnboundNoDirective ==
    [][\A c \in Conns :
            ((Does(c, "go_to") \/ Does(c, "move_to"))
                /\ Req(Line(c)).register \notin DOMAIN registers) =>
                /\ client_rx'[c] # client_rx[c]
                /\ EndsWith(client_rx'[c], <<" does not point to any workspace">>)
                /\ hypr'[c] = hypr[c]
                /\ hypr_tx' = hypr_tx
                /\ connects' = connects
                /\ pc'[c] = "loop"]_vars

\* a move_to 3 was refused: the buffer holds the marker only and the
\* compositor socket was never opened
C5_Witness ==
    \E c \in Conns :
        /\ pc[c] = "loop" /\ input_buf[c] = T_move_to \o <<SP, "3">>
        /\ client_rx[c] = <<"register ", "3", " does not point to any workspace">>
        /\ hypr[c] = BATCH
        /\ hypr_tx[c] = <<>> /\ connects[c] = 0

C7_Scenario ==
    \A c \in Conns :
        (accepted = 1 /\ client_tx[c] = ScenarioBytes /\ pc[c] = "done") =>
            hypr_tx[c] = <<BATCH \o <<"/dispatch workspace ">> \o T_web \o <<";">>>>

Directive(call) ==
    IF call.op = "go_to"
    THEN <<"/dispatch workspace ">> \o display_workspace(call.workspace) \o <<";">>
    ELSE <<"/dispatch movetoworkspacesilent ">> \o display_workspace(call.workspace)
            \o <<";">>

RECURSIVE Directives(_)
Directives(cs) == IF cs = <<>> THEN <<>> ELSE Directive(Head(cs)) \o Directives(Tail(cs))

Pending(c) == SubSeq(calls[c], flushed[c] + 1, Len(calls[c]))

(***************************************************************************)
(* C8: a flush that succeeds after k >= 1 go_to / move_to calls hands the  *)
(* compositor exactly one write, the batch marker followed by the          *)
(* directives of the calls made since the last flush that succeeded, in    *)
(* the order of the calls; and the compositor gets a write at no other     *)
(* time than the end of a send.                                            *)
(***************************************************************************)
C8_OneWriteInOrder ==
    [][\A c \in Conns :
        /\ flushed'[c] > flushed[c] =>
                /\ Len(Pending(c)) >= 1
                /\ hypr_tx'[c] = Append(hypr_tx[c], BATCH \o Directives(Pending(c)))
        /\ hypr_tx'[c] # hypr_tx[c] =>
                /\ pc[c] \in {"api_send", "api_send_reply"}
                /\ Len(hypr_tx'[c]) = Len(hypr_tx[c]) + 1]_vars

\* one flush has delivered a go_to followed by a move_to in a single write
C8_Witness ==
    /\ pc[1] = "api"
    /\ Len(calls[1]) = 2 /\ flushed[1] = 2
    /\ calls[1][1].op = "go_to" /\ calls[1][2].op = "move_to"
    /\ Len(hypr_tx[1]) = 1
    /\ Len(hypr_tx[1][1]) = Len(BATCH) + 6

(***************************************************************************)
(* C9: a flush request handled while the connection's buffer holds the     *)
(* marker only succeeds (the client gets the pending reply bytes and no    *)
(* error) without opening or writing the compositor socket and without     *)
(* changing the buffer; the teardown flush in that state does the same     *)
(* and the task ends normally.                                             *)
(***************************************************************************)
C9_EmptyFlushNoIO ==
    [][\A c \in Conns :
        /\ (Does(c, "flush") /\ hypr[c] = BATCH) =>
                /\ connects' = connects
                /\ hypr_tx' = hypr_tx
                /\ hypr'[c] = hypr[c]
                /\ pc'[c] = "loop"
                /\ client_rx'[c] = client_rx[c] \o stream_buf[c] \o reply_buf[c]
        /\ (Readable(c) /\ Line(c) = <<>> /\ pc'[c] # pc[c] /\ hypr[c] = BATCH) =>
                /\ connects' = connects
                /\ hypr_tx' = hypr_tx
                /\ hypr'[c] = hypr[c]
                /\ pc'[c] = "done"]_vars

\* a flush request was handled with nothing buffered
C9_Witness ==
    \E c \in Conns :
        /\ pc[c] = "loop" /\ input_buf[c] = T_flush /\ wire[c] = <<>>
        /\ hypr[c] = BATCH
        /\ hypr_tx[c] = <<>> /\ connects[c] = 0
        /\ client_rx[c] = <<>>

Mentions(text, part) ==
    \E i \in 1..(Len(text) - Len(part) + 1) : SubSeq(text, i, i + Len(part) - 1) = part

FirstAt(text, part) ==
    CHOOSE i \in 1..(Len(text) - Len(part) + 1) :
        /\ SubSeq(text, i, i + Len(part) - 1) = part
        /\ \A j \in 1..(i - 1) : SubSeq(text, j, j + Len(part) - 1) # part

(***************************************************************************)
(* C10: the reply of a read without a filter lists every workspace and     *)
(* every register that has a target, the registers in ascending order.     *)
(***************************************************************************)
C10_ReadListsAll ==
    [][\A c \in Conns :
        (Does(c, "read") /\ ~Req(Line(c)).some) =>
            /\ \A n \in DOMAIN workspaces : Mentions(reply_buf'[c], n)
            /\ \A r \in DOMAIN registers : Mentions(reply_buf'[c], display_u8(r))
            /\ \A r1, r2 \in DOMAIN registers :
                    r1 < r2 => FirstAt(reply_buf'[c], display_u8(r1))
                                    < FirstAt(reply_buf'[c], display_u8(r2))]_vars

(***************************************************************************)
(* C11: the reply of a read filtered by the name n of a workspace holds    *)
(* the entry of n and names exactly the registers whose target is n.       *)
(***************************************************************************)
C11_ReadByName ==
    [][\A c \in Conns :
        (Does(c, "read") /\ Req(Line(c)).some
            /\ Req(Line(c)).name \in DOMAIN workspaces) =>
            /\ Mentions(reply_buf'[c], Req(Line(c)).name)
            /\ \A r \in DOMAIN registers :
                    registers[r].name = Req(Line(c)).name
                        <=> Mentions(reply_buf'[c], display_u8(r))]_vars

(***************************************************************************)
(* C12: a read filtered by a name that is no workspace fails: by the time  *)
(* the handler is back in its loop an error text has been written to the   *)
(* client, and no snapshot is produced.                                    *)
(***************************************************************************)
C12_ReadUnknownFails ==
    [][\A c \in Conns :
        (pc[c] = "read_write" /\ pc'[c] = "loop"
            /\ Req(input_buf[c]).op = "read" /\ Req(input_buf[c]).some
            /\ Req(input_buf[c]).name \notin DOMAIN workspaces) =>
            client_rx'[c] \o stream_buf'[c] # client_rx[c] \o stream_buf[c]]_vars

\* the parameters of a message whose command is one of the match arms
Params(msg) ==
    LET m == parse_cmd(msg)
    IN  CASE m.cmd = T_create -> parse_create(m.rest)
          [] m.cmd = T_bind -> parse_bind(m.rest)
          [] m.cmd = T_read -> parse_read(m.rest)
          [] m.cmd = T_flush -> parse_flush(m.rest)
          [] m.cmd = T_unbind -> parse_register(UNBIND, m.rest)
          [] m.cmd = T_go_to -> parse_register(GO_TO, m.rest)
          [] OTHER -> parse_register(MOVE_TO, m.rest)

\* the message does not decode
Undecodable(msg) ==
    \/ ~from_utf8_ok(msg)
    \/ ~parse_cmd(msg).some
    \/ parse_cmd(msg).cmd \notin Commands
    \/ ~Params(msg).ok

\* the message decodes and the registry refuses it
Refused(msg) ==
    /\ ~Undecodable(msg)
    /\ \/ Req(msg).op = "create" /\ Req(msg).name \in DOMAIN workspaces
       \/ Req(msg).op \in {"go_to", "move_to"} /\ Req(msg).register \notin DOMAIN registers

\* the display text of the error of such a message
ErrorText(msg) ==
    IF ~from_utf8_ok(msg) THEN <<"invalid utf-8 sequence">>
    ELSE IF ~parse_cmd(msg).some THEN <<"expected param">>
    ELSE IF parse_cmd(msg).cmd \notin Commands THEN invalid_command(parse_cmd(msg).cmd)
    ELSE IF ~Params(msg).ok THEN Params(msg).err
    ELSE IF Req(msg).op = "create" THEN <<"name already in use">>
    ELSE unbound_register(Req(msg).register)

(***************************************************************************)
(* C13: a message that does not decode (no UTF-8, an empty line, an        *)
(* unknown command, a parameter of the wrong type, a missing parameter,    *)
(* input after the last parameter) or that the registry refuses (name in   *)
(* use, register without a target) has the display text of its error       *)
(* written to its own connection and flushed in the step that handles it,  *)
(* changes neither the registry nor the batch buffer, and leaves the       *)
(* connection in its loop with the rest of the client's bytes still to be  *)
(* read.                                                                   *)
(***************************************************************************)
C13_ErrorsReported ==
    [][\A c \in Conns :
        (Handled(c) /\ (Undecodable(Line(c)) \/ Refused(Line(c)))) =>
            /\ ErrorText(Line(c)) # <<>>
            /\ client_rx'[c] = client_rx[c] \o stream_buf[c] \o ErrorText(Line(c))
            /\ stream_buf'[c] = <<>>
            /\ \A d \in Conns \ {c} : client_rx'[d] = client_rx[d]
            /\ workspaces' = workspaces /\ registers' = registers
            /\ hypr'[c] = hypr[c]
            /\ pc'[c] = "loop"
            /\ wire'[c] = after_read_until(wire[c])
            /\ peer_open'[c] = peer_open[c]]_vars

\* the only connection so far had four messages rejected, each answered
\* with its error, and then its create web handled
C13_Witness ==
    \E c \in Conns :
        /\ accepted = 1
        /\ client_tx[c] = RejectedBytes
        /\ pc[c] = "loop" /\ wire[c] = <<>>
        /\ input_buf[c] = T_create \o <<SP>> \o T_web
        /\ T_web \in DOMAIN workspaces
        /\ stream_buf[c] = <<>>
        /\ Len(client_rx[c]) >= 4
        /\ client_rx[c][1] = "invalid utf-8 sequence"

(***************************************************************************)
(* handle_message driven as handle_client's loop drives it, on a Hypr that *)
(* already holds directives: handle_message is public and takes the        *)
(* caller's Hypr, so the caller of slot 1 first calls go_to and move_to on *)
(* its Hypr and then serves a stream with the loop of handle_client.       *)
(* (A Hypr that handle_client made itself never holds a directive when a   *)
(* flush request arrives: a register parses only in a message that ends    *)
(* with the end of the stream.)                                            *)
(***************************************************************************)
MessageScripts ==
    { Script(T_flush, TRUE),
      Script(T_flush \o <<SP>> \o T_code \o <<NL>> \o T_flush, TRUE) }

\* the loop starts on the stream of a client that has sent s
Serve(c, s) ==
    /\ pc[c] = "api"
    /\ pc' = [pc EXCEPT ![c] = "loop"]
    /\ wire' = [wire EXCEPT ![c] = s.bytes]
    /\ client_tx' = [client_tx EXCEPT ![c] = s.bytes]
    /\ peer_open' = [peer_open EXCEPT ![c] = ~s.closes]
    /\ UNCHANGED <<registry, readers, accepted, input_buf, reply_buf, client_io,
                   hypr_io>>

MessageNext ==
    \/ \E w \in HyprWorkspaces : HyprGoTo(1, w)
    \/ \E w \in HyprWorkspaces : HyprMoveTo(1, w)
    \/ \E s \in MessageScripts : Serve(1, s)
    \/ Flush(1)
    \/ Teardown(1)
    \/ \E answer \in CompReplies : SendOk(1, answer)
    \/ \E stage \in SendStages : SendFail(1, stage)

SpecMessage == HyprInit /\ [][MessageNext]_vars

C15_TeardownReplyDelivered ==
    [][\A c \in Conns, answer \in CompReplies :
        (pc[c] = "teardown_send" /\ SendOk(c, answer)) =>
            /\ pc'[c] = "done"
            /\ Len(hypr_tx'[c]) = 1
            /\ EndsWith(client_rx'[c], reply_buf[c] \o answer)
            /\ stream_buf'[c] = <<>>]_vars

(***************************************************************************)
(* C16: the workspaces change only in a step that handles a create, which  *)
(* leaves the registers alone; a bind or an unbind leaves the workspaces   *)
(* as they are, also when the bind names a workspace that was never        *)
(* created; and no step removes or alters a workspace, so the set of       *)
(* workspaces only grows.                                                  *)
(***************************************************************************)
C16_OnlyCreateAddsWorkspaces ==
    [][/\ \A n \in DOMAIN workspaces :
            n \in DOMAIN workspaces' /\ workspaces'[n] = workspaces[n]
       /\ workspaces' # workspaces => \E c \in Conns : Does(c, "create")
       /\ \A c \in Conns :
            (Does(c, "bind") \/ Does(c, "unbind")) => workspaces' = workspaces
       /\ \A c \in Conns :
            Does(c, "create") => registers' = registers]_vars

\* register 3 was bound to code, which was never created: web is the only
\* workspace
C16_Witness ==
    \E c \in Conns :
        /\ pc[c] = "loop"
        /\ input_buf[c] = T_bind \o <<SP>> \o T_code \o <<SP, "3">>
        /\ 3 \in DOMAIN registers /\ registers[3].name = T_code
        /\ DOMAIN workspaces = {T_web}

(***************************************************************************)
(* C17: a connection that is suspended in Hypr::send, from a flush request *)
(* or from the teardown flush, does not hold the lock of the registry: it  *)
(* is no reader, and unless some connection is suspended in the write of a *)
(* read reply nobody holds the lock, which is all that a create, bind or   *)
(* unbind of another connection waits for (go_to, move_to and read wait    *)
(* for nothing).                                                           *)
(***************************************************************************)
C17_SendHoldsNoLock ==
    \A c \in Conns :
        Sending(c) =>
            /\ c \notin readers
            /\ (\A x \in Conns : pc[x] # "read_write") => readers = {}

\* one connection is suspended in the send of its teardown flush, and the
\* other has had its create handled
C17_Witness ==
    \E c, d \in Conns :
        /\ c # d
        /\ pc[c] = "teardown_send"
        /\ pc[d] = "loop"
        /\ input_buf[d] = T_create \o <<SP>> \o T_web
        /\ T_web \in DOMAIN workspaces

\* the parser of a message's arm after the arm's parse_param calls, and
\* whether all of them succeeded
Fields(msg) ==
    LET m == parse_cmd(msg)
        one(sig, T) == LET r == parse_param(parser(sig, m.rest), T)
                       IN  [ok |-> r.ok, p |-> r.p]
    IN  CASE m.cmd = T_create -> one(CREATE, T_STR)
          [] m.cmd = T_bind ->
                LET r1 == parse_param(parser(BIND, m.rest), T_STR)
                    r2 == parse_param(r1.p, T_U8)
                IN  [ok |-> r1.ok /\ r2.ok, p |-> r2.p]
          [] m.cmd = T_unbind -> one(UNBIND, T_U8)
          [] m.cmd = T_go_to -> one(GO_TO, T_U8)
          [] m.cmd = T_move_to -> one(MOVE_TO, T_U8)
          [] m.cmd = T_read -> one(READ, T_OPT_STR)
          [] OTHER -> [ok |-> TRUE, p |-> parser(FLUSH, m.rest)]

\* no declared field is left and no input is left
ExactArity(p) == p.index >= Len(p.signature.params) /\ p.input = <<>>

(***************************************************************************)
(* C18: finish succeeds exactly when no declared field is left unconsumed  *)
(* and no input is left after the last consumed field; a command whose     *)
(* parameters parse is accepted exactly when that holds, and otherwise the *)
(* error of finish is reported and the command changes neither the         *)
(* registry nor the batch buffer; a command with a parameter that does not *)
(* parse is not accepted either.                                           *)
(***************************************************************************)
C18_ExactArity ==
    [][\A c \in Conns :
        (Handled(c) /\ from_utf8_ok(Line(c)) /\ Cmd(c).cmd \in Commands) =>
            LET f == Fields(Line(c))
                accepted_params == Params(Line(c)).ok
            IN  /\ \A i \in 0..2, input \in {<<>>, T_web} :
                        LET p == [f.p EXCEPT !.index = i, !.input = input]
                        IN  finish(p).ok <=> ExactArity(p)
                /\ ~f.ok => ~accepted_params
                /\ f.ok =>
                    /\ finish(f.p).ok <=> ExactArity(f.p)
                    /\ accepted_params <=> ExactArity(f.p)
                    /\ ~ExactArity(f.p) =>
                        /\ Reports(c, display_signature_error(finish(f.p).err))
                        /\ workspaces' = workspaces /\ registers' = registers
                        /\ hypr'[c] = hypr[c] /\ hypr_tx' = hypr_tx
                        /\ pc'[c] = "loop"]_vars

\* a flush followed by a word was refused by finish: nothing was sent, and
\* the client has the error of finish
C18_Witness ==
    \E c \in Conns :
        /\ pc[c] = "loop"
        /\ input_buf[c] = T_flush \o <<SP>> \o T_code \o <<NL>>
        /\ Fields(input_buf[c]).ok /\ ~ExactArity(Fields(input_buf[c]).p)
        /\ EndsWith(client_rx[c],
                    display_signature_error(finish(Fields(input_buf[c]).p).err))
        /\ hypr[c] = BATCH /\ hypr_tx[c] = <<>>

\* where the first whitespace character of a text is (0 when there is none)
RECURSIVE FindWhitespace(_, _)
FindWhitespace(text, i) ==
    IF i > Len(text) THEN 0
    ELSE IF text[i] \in {SP, NL} THEN i
    ELSE FindWhitespace(text, i + 1)

(***************************************************************************)
(* C19: of every message handled, parse_cmd yields nothing when the        *)
(* message is empty, and else the text before the first whitespace         *)
(* character as the command and the text after it as the rest (the whole   *)
(* message and an empty rest when it has no whitespace); so the line       *)
(* flush, ended by its newline, yields the command flush.                  *)
(***************************************************************************)
C19_SplitAtWhitespace ==
    \A c \in Conns :
        from_utf8_ok(input_buf[c]) =>
            LET line == input_buf[c]
                m == parse_cmd(line)
                w == FindWhitespace(line, 1)
            IN  IF line = <<>> THEN ~m.some
                ELSE /\ m.some
                     /\ m.cmd = (IF w = 0 THEN line ELSE SubSeq(line, 1, w - 1))
                     /\ m.rest = (IF w = 0 THEN <<>> ELSE SubSeq(line, w + 1, Len(line)))

(***************************************************************************)
(* C20: a flush whose send fails, at the connect, the write or the read of *)
(* the reply, leaves the buffer with every directive it held; a flush      *)
(* whose send succeeds leaves the buffer as the batch marker alone; and    *)
(* whatever is written to the compositor is the marker followed by the     *)
(* directives of the calls made since the last flush that succeeded, so no *)
(* directive that a successful flush delivered is written again.           *)
(***************************************************************************)
C20_BufferKeptOnError ==
    [][\A c \in Conns :
        /\ (\E stage \in SendStages : HyprSendFail(c, stage)) =>
                /\ hypr'[c] = hypr[c]
                /\ hypr'[c] = BATCH \o Directives(Pending(c))
                /\ Len(Pending(c)) >= 1
                /\ flushed'[c] = flushed[c]
        /\ (\E answer \in CompReplies : HyprSendOk(c, answer)) =>
                /\ hypr'[c] = BATCH
                /\ flushed'[c] = Len(calls[c])
        /\ hypr_tx'[c] # hypr_tx[c] =>
                hypr_tx'[c] = Append(hypr_tx[c], BATCH \o Directives(Pending(c)))]_vars

\* the read of the reply failed after the batch was written, the buffer
\* was kept, and a second flush has delivered the same batch and emptied
\* the buffer
C20_Witness ==
    /\ pc[1] = "api"
    /\ Len(calls[1]) >= 1 /\ flushed[1] = Len(calls[1])
    /\ Len(hypr_tx[1]) = 2
    /\ hypr_tx[1][1] = hypr_tx[1][2]
    /\ hypr[1] = BATCH

(***************************************************************************)
(* The server against clients that double a space, that keep their         *)
(* connection open after their last message, or whose socket refuses a     *)
(* write.                                                                  *)
(***************************************************************************)
\* create and bind with two spaces after the command, and a client that
\* creates a workspace, reads it and then waits with its connection open
OpenBytes ==
    T_create \o <<SP>> \o T_web \o <<NL>> \o T_read \o <<SP>> \o T_web \o <<NL>>

ClientScripts ==
    { Script(T_create \o <<SP, SP>>, TRUE),
      Script(T_bind \o <<SP, SP, "3">>, TRUE),
      Script(OpenBytes, FALSE) }

\* read: write_all returns an error.  The reply is not cleared, the lock is
\* dropped with the handler's return, and handle_client writes the error to
\* the client; when that fails as well the task ends
ReadWriteFailed(c, reported) ==
    /\ pc[c] = "read_write"
    /\ readers' = readers \ {c}
    /\ IF reported
       THEN /\ ReplyErr(c, <<"client socket: write failed">>)
            /\ pc' = [pc EXCEPT ![c] = "loop"]
       ELSE /\ pc' = [pc EXCEPT ![c] = "failed"]
            /\ UNCHANGED client_io
    /\ UNCHANGED <<registry, accepted, wire, peer, input_buf, reply_buf, hypr_io>>

ClientNext ==
    \/ \E c \in Conns, s \in ClientScripts : Accept(c, s)
    \/ \E c \in Conns : Create(c)
    \/ \E c \in Conns : Bind(c)
    \/ \E c \in Conns : Read(c)
    \/ \E c \in Conns : ReadWritten(c)
    \/ \E c \in Conns, reported \in BOOLEAN : ReadWriteFailed(c, reported)
    \/ \E c \in Conns : Teardown(c)

SpecClient == Init /\ [][ClientNext]_vars

(***************************************************************************)
(* C21: no workspace has the empty text as its name, and no register       *)
(* points at the empty text, whatever the spacing of the create and bind   *)
(* commands that were accepted.                                            *)
(***************************************************************************)
C21_NamesNotEmpty ==
    /\ \A n \in DOMAIN workspaces : n # <<>>
    /\ \A r \in DOMAIN registers : registers[r].name # <<>>

(***************************************************************************)
(* C22: a register whose target is the name of a workspace holds the       *)
(* allocation of that workspace's key, and two registers with the same     *)
(* target text hold one allocation; an allocation made for a bind of its   *)
(* own is shared with nothing.                                             *)
(***************************************************************************)
C22_SharedAllocation ==
    /\ \A r \in DOMAIN registers :
            registers[r].name \in DOMAIN workspaces => registers[r].arc = "key"
    /\ \A r1, r2 \in DOMAIN registers :
            (r1 # r2 /\ registers[r1].name = registers[r2].name) =>
                registers[r1].arc = "key" /\ registers[r2].arc = "key"

(***************************************************************************)
(* C23: the handler never waits for the next message of a client that      *)
(* keeps its connection open while a read reply it has written is still    *)
(* undelivered.  (A handler that waits is suspended in read_until and      *)
(* takes no step before the client sends or closes, so a reply that is     *)
(* undelivered then stays undelivered for as long as the client is         *)
(* silent.)                                                                *)
(***************************************************************************)
C23_ReadReplyDelivered ==
    \A c \in Conns :
        (pc[c] = "loop" /\ peer_open[c] /\ ~HasLine(wire[c])) => stream_buf[c] = <<>>

(***************************************************************************)
(* C24: whenever the handler is about to read a message, and so also when  *)
(* it starts the teardown flush, the reply buffer of its connection is     *)
(* empty, whatever happened to the messages before.                        *)
(***************************************************************************)
C24_ReplyBufferEmpty ==
    \A c \in Conns : pc[c] = "loop" => reply_buf[c] = <<>>

(***************************************************************************)
(* C25: a go_to or move_to of r handled while r is bound records, and      *)
(* appends to the batch buffer, the directive for the name r is bound to   *)
(* in that step; a step that changes the registers, a bind or an unbind of *)
(* any connection, changes no batch buffer and no recorded call; and a     *)
(* write to the compositor is the batch marker followed by the directives  *)
(* of the calls as they were recorded.  So a bind or unbind of r between   *)
(* the go_to / move_to and the flush does not change what the flush sends. *)
(***************************************************************************)
C25_DirectiveFixedAtRequest ==
    [][/\ registers' # registers => (hypr' = hypr /\ calls' = calls)
       /\ \A c \in Conns :
            /\ Handled(c) =>
                LET req == Req(Line(c))
                IN  (req.ok /\ req.op \in {"go_to", "move_to"}
                        /\ req.register \in DOMAIN registers) =>
                      LET call == [op |-> req.op,
                                   workspace |-> WsStr(registers[req.register].name)]
                      IN  /\ calls'[c] = Append(calls[c], call)
                          /\ hypr'[c] = hypr[c] \o Directive(call)
            /\ Len(hypr_tx'[c]) > Len(hypr_tx[c]) =>
                hypr_tx'[c] = Append(hypr_tx[c], BATCH \o Directives(Pending(c)))]_vars

\* register 3 was bound to web when go_to 3 was handled and is bound to
\* code now; the batch that is being sent names web
C25_Witness ==
    \E c \in Conns :
        /\ pc[c] = "teardown_send"
        /\ hypr[c] = BATCH \o <<"/dispatch workspace ">> \o T_web \o <<";">>
        /\ 3 \in DOMAIN registers
        /\ registers[3].name = T_code

(***************************************************************************)
(* C26: a connection that is suspended on its client socket, in read_until *)
(* or in the write_all of a read reply, holds the registry lock neither    *)
(* for reading nor for writing, so that a create, bind or unbind of        *)
(* another connection never waits for a client to drain its socket.        *)
(***************************************************************************)
C26_NoLockAcrossSocketIO ==
    \A c \in Conns : pc[c] \in {"loop", "read_write"} => c \notin readers

====
